---- MODULE Spec2Model ----
(***************************************************************************)
(* Model of the notebook "Outputting the result of multiprocessing to a    *)
(* pandas dataframe" (src/unnamed/part_000).                               *)
(*                                                                         *)
(* Cell 1 (parallel version) creates a multiprocessing.Pool, dispatches    *)
(* one processData task per job with apply_async and the callback          *)
(* collect_results, closes and joins the pool and builds a data frame from *)
(* the global list results.  Cell 2 (serial version) runs afterwards in    *)
(* the same kernel: it calls processData in a loop and concatenates the    *)
(* returned frames with pd.concat.                                         *)
(*                                                                         *)
(* The pool is modelled by what the notebook relies on: a FIFO task queue  *)
(* read by the worker processes, a FIFO result queue read by the single    *)
(* result-handler thread of the parent process (which runs the callback),  *)
(* the cache of pending AsyncResults, and the shutdown that close()/join() *)
(* perform once the cache is empty.                                        *)
(*                                                                         *)
(* The notebook "Where the data science related jobs are? (Part 2)"        *)
(* (src/unnamed/part_001) is a separate program: its query cells turn the  *)
(* filings in dsJobs into state_data and print its head and tail.          *)
(***************************************************************************)
EXTENDS Integers, Sequences, FiniteSets, Bags, TLC

\* ------------------------------------------------------------------ bounds
MaxJobs == 2
MaxWorkers == 3
MaxRows == 2
NumCols == 2

\* ------------------------------------------------- the notebook's constants
NotebookJobs == 10
NotebookWorkers == 8
NotebookRows == 150
NotebookCols == 5
Iterations == 100000

\* ------------------------------------- the H1B notebook: bounds, constants
MaxStates == 11
MaxFilings == 2
HeadCount == 10
TailCount == 10

VARIABLES
    jobs,        \* the job inputs: jobs[j] is the frame passed as args=(df,)
    workerCount, \* processes= argument of multiprocessing.Pool
    pc,          \* position of the main thread in cell 1
    i,           \* loop variable of the dispatch loop: jobs dispatched so far
    poolState,   \* pool._state: "NONE" before construction, RUN, CLOSE
    taskqueue,   \* tasks waiting for a worker (job numbers, FIFO)
    wstate,      \* wstate[w]: "unborn", "idle", "busy" or "exited"
    wjob,        \* wjob[w]: the job worker w is executing, 0 if none
    outqueue,    \* results sent back by the workers, FIFO
    cache,       \* pool._cache: jobs whose AsyncResult is not yet set
    rhstate,     \* the result-handler thread: "unborn", "run" or "exited"
    results,     \* the global list results of cell 1
    frame,       \* the data frame built at the end of cell 1, or NoFrame
    runs,        \* history: runs[j] is how many times a worker started job j
    completed,   \* history: the jobs in the order their workers finished them
    handled,     \* history: the jobs in the order the handler set their result
    spc,         \* position of the main thread in cell 2
    si,          \* loop variable of cell 2
    sresults,    \* the global list results of cell 2 (a list of frames)
    final,       \* the frame pd.concat returns in cell 2, or NoFrame
    hpc,         \* H1B notebook: the next statement of the query cells
    dsJobs,      \* H1B notebook: the filings read from dataScienceJobs.csv
    data,        \* H1B notebook: the frame named data
    state_data,  \* H1B notebook: the frame named state_data
    top,         \* H1B notebook: the frame printed by the top-10 cell
    bottom       \* H1B notebook: the frame printed by the bottom-10 cell

vars == <<jobs, workerCount, pc, i, poolState, taskqueue, wstate, wjob,
          outqueue, cache, rhstate, results, frame, runs, completed, handled,
          spc, si, sresults, final,
          hpc, dsJobs, data, state_data, top, bottom>>

poolVars == <<poolState, taskqueue, wstate, wjob, outqueue, cache, rhstate,
              runs, completed, handled>>
serialVars == <<spc, si, sresults, final>>
h1bVars == <<hpc, dsJobs, data, state_data, top, bottom>>

\* ------------------------------------------------------------- data values
\* A cell of a frame: an integer, a float, a string, or NaN.
IntCell(v) == [t |-> "int", v |-> v]
FloatCell(v) == [t |-> "float", v |-> v]
StrCell == [t |-> "str", v |-> 0]
NaN == [t |-> "nan", v |-> 0]

\* A frame: its rows (each a sequence of cells) and its number of columns.
Frame(rows, ncols) == [rows |-> rows, ncols |-> ncols]
NoFrame == [rows |-> <<>>, ncols |-> -1]

Shape(f) == <<Len(f.rows), f.ncols>>

Max(S) == CHOOSE x \in S : \A y \in S : y <= x

RECURSIVE Flatten(_)
Flatten(ss) == IF ss = <<>> THEN <<>> ELSE Head(ss) \o Flatten(Tail(ss))

RECURSIVE SeqBag(_)
SeqBag(s) == IF s = <<>> THEN EmptyBag ELSE SetToBag({Head(s)}) (+) SeqBag(Tail(s))

\* df * 1.0 on one cell: a number becomes the float of the same value, a
\* string cannot be multiplied by a float (TypeError).
CanScale(c) == c.t # "str"
ScaleCell(c) == IF c.t = "nan" THEN c ELSE FloatCell(c.v * 1)

Raises(f) == \E r \in 1..Len(f.rows) : \E c \in 1..Len(f.rows[r]) : ~CanScale(f.rows[r][c])

Scale(f) == Frame([r \in 1..Len(f.rows) |-> [c \in 1..Len(f.rows[r]) |-> ScaleCell(f.rows[r][c])]],
                  f.ncols)

\* for i in range(100000): df = df * 1.0 -- once an iteration leaves the frame
\* unchanged every later one does too, so the loop stops evaluating there.
RECURSIVE ScaleLoop(_, _)
ScaleLoop(n, f) ==
    IF n = 0 THEN f
    ELSE LET g == Scale(f) IN IF g = f THEN f ELSE ScaleLoop(n - 1, g)

\* processData of the serial version: returns the frame.
processDataSerial(f) == ScaleLoop(Iterations, f)

\* df.values.tolist(): the rows as a list of lists, without the column index.
ToList(f) == f.rows

\* processData of the parallel version: returns a list of rows.
processData(f) == ToList(ScaleLoop(Iterations, f))

\* Variant of DataFrame: the inner lists are taken as columns.
DataFrameColumns(rows) ==
    LET n == IF rows = <<>> THEN 0 ELSE Max({Len(rows[r]) : r \in 1..Len(rows)})
    IN Frame([c \in 1..n |->
                 [r \in 1..Len(rows) |-> IF c <= Len(rows[r]) THEN rows[r][c] ELSE NaN]],
             Len(rows))

\* pd.DataFrame(list of lists): as many columns as the longest row, shorter
\* rows padded with NaN; an empty list gives a frame without columns.
DataFrame(rows) ==
    LET n == IF rows = <<>> THEN 0 ELSE Max({Len(rows[r]) : r \in 1..Len(rows)})
    IN Frame([r \in 1..Len(rows) |->
                 [c \in 1..n |-> IF c <= Len(rows[r]) THEN rows[r][c] ELSE NaN]], n)

\* pd.concat(frames, axis=0, ignore_index=True): the rows of the frames one
\* after the other over the union of their columns, a frame's missing columns
\* filled with NaN; an empty list raises ValueError.
ConcatRaises(fs) == fs = <<>>
Concat(fs) ==
    LET n == Max({fs[k].ncols : k \in 1..Len(fs)})
    IN Frame(Flatten([k \in 1..Len(fs) |->
                 [r \in 1..Len(fs[k].rows) |->
                     [c \in 1..n |-> IF c <= Len(fs[k].rows[r])
                                     THEN fs[k].rows[r][c] ELSE NaN]]]), n)

\* ------------------------------------------------------------------ inputs
\* The input frames: n rows of cols columns; row r holds the integer r in
\* every column; a bad frame has a string in its first cell.
MkTable(n, cols, bad) ==
    Frame([r \in 1..n |-> [c \in 1..cols |->
              IF bad /\ r = 1 /\ c = 1 THEN StrCell ELSE IntCell(r)]], cols)

InputTables ==
    {MkTable(n, NumCols, FALSE) : n \in 0..MaxRows}
    \cup {MkTable(n, NumCols, TRUE) : n \in 1..MaxRows}

JobSeqs == UNION {[1..n -> InputTables] : n \in 0..MaxJobs}

Workers == 1..workerCount
NumJobs == Len(jobs)
JobIds == 1..NumJobs

InitRest ==
    /\ pc = "start"
    /\ i = 0
    /\ poolState = "NONE"
    /\ taskqueue = <<>>
    /\ wstate = [w \in Workers |-> "unborn"]
    /\ wjob = [w \in Workers |-> 0]
    /\ outqueue = <<>>
    /\ cache = {}
    /\ rhstate = "unborn"
    /\ results = <<>>
    /\ frame = NoFrame
    /\ runs = [j \in JobIds |-> 0]
    /\ completed = <<>>
    /\ handled = <<>>
    /\ spc = "idle"
    /\ si = 0
    /\ sresults = <<>>
    /\ final = NoFrame

\* The H1B notebook before its query cells run.
H1BRest ==
    /\ hpc = "select"
    /\ data = <<>>
    /\ state_data = <<>>
    /\ top = <<>>
    /\ bottom = <<>>

\* The H1B notebook is not part of this run.
NoFilings ==
    /\ dsJobs = <<>>
    /\ H1BRest

Init ==
    /\ jobs \in JobSeqs
    /\ workerCount \in 1..MaxWorkers
    /\ InitRest
    /\ NoFilings

\* Job inputs that do not share one schema: frames of NumCols and of
\* NumCols + 1 columns, none of which makes processData raise.
RaggedTables ==
    {MkTable(n, NumCols, FALSE) : n \in 1..MaxRows}
    \cup {MkTable(n, NumCols + 1, FALSE) : n \in 1..MaxRows}

InitRagged ==
    /\ jobs \in UNION {[1..n -> RaggedTables] : n \in 0..MaxJobs}
    /\ workerCount \in 1..MaxWorkers
    /\ InitRest
    /\ NoFilings

\* The run recorded in the notebook: ten jobs on the same 150 x 5 frame, a
\* pool of cpu_count() = 8 processes.
InitNotebook ==
    /\ jobs = [j \in 1..NotebookJobs |-> MkTable(NotebookRows, NotebookCols, FALSE)]
    /\ workerCount = NotebookWorkers
    /\ InitRest
    /\ NoFilings

\* ----------------------------------------------------- cell 1: main thread
\* pool = multiprocessing.Pool(processes=...): the workers and the handler
\* threads are started.
CreatePool ==
    /\ pc = "start"
    /\ poolState' = "RUN"
    /\ wstate' = [w \in Workers |-> "idle"]
    /\ rhstate' = "run"
    /\ pc' = "dispatch"
    /\ UNCHANGED <<jobs, workerCount, i, taskqueue, wjob, outqueue, cache,
                   results, frame, runs, completed, handled>>
    /\ UNCHANGED serialVars
    /\ UNCHANGED h1bVars

\* pool.apply_async(processData, args=(df,), callback=collect_results): the
\* task is queued and its AsyncResult registered in the cache; no waiting.
Dispatch ==
    /\ pc = "dispatch"
    /\ i < NumJobs
    /\ i' = i + 1
    /\ taskqueue' = Append(taskqueue, i + 1)
    /\ cache' = cache \cup {i + 1}
    /\ UNCHANGED <<jobs, workerCount, pc, poolState, wstate, wjob, outqueue,
                   rhstate, results, frame, runs, completed, handled>>
    /\ UNCHANGED serialVars
    /\ UNCHANGED h1bVars

\* pool.close()
Close ==
    /\ pc = "dispatch"
    /\ i = NumJobs
    /\ poolState' = "CLOSE"
    /\ pc' = "join"
    /\ UNCHANGED <<jobs, workerCount, i, taskqueue, wstate, wjob, outqueue,
                   cache, rhstate, results, frame, runs, completed, handled>>
    /\ UNCHANGED serialVars
    /\ UNCHANGED h1bVars

\* Variants of JoinReady: the join left out, and a join that waits for the
\* result handler only.
JoinReadyClosed == poolState = "CLOSE"
JoinReadyHandlerOnly == rhstate = "exited"

\* pool.join() returns once the result handler and every worker have exited.
JoinReady ==
    /\ rhstate = "exited"
    /\ \A w \in Workers : wstate[w] = "exited"

Join ==
    /\ pc = "join"
    /\ JoinReady
    /\ pc' = "frame"
    /\ UNCHANGED <<jobs, workerCount, i, results, frame>>
    /\ UNCHANGED poolVars
    /\ UNCHANGED h1bVars
    /\ UNCHANGED serialVars
    /\ UNCHANGED h1bVars

\* df = pd.DataFrame(results); print(df.shape)
MakeFrame ==
    /\ pc = "frame"
    /\ frame' = DataFrame(results)
    /\ pc' = "done"
    /\ UNCHANGED <<jobs, workerCount, i, results>>
    /\ UNCHANGED poolVars
    /\ UNCHANGED h1bVars
    /\ UNCHANGED serialVars
    /\ UNCHANGED h1bVars

\* --------------------------------------------------- cell 1: pool processes
\* Variant of TakeTask: the newest task is taken instead of the oldest.
TakeTaskLast(w) ==
    /\ wstate[w] = "idle"
    /\ taskqueue # <<>>
    /\ wstate' = [wstate EXCEPT ![w] = "busy"]
    /\ wjob' = [wjob EXCEPT ![w] = taskqueue[Len(taskqueue)]]
    /\ runs' = [runs EXCEPT ![taskqueue[Len(taskqueue)]] = @ + 1]
    /\ taskqueue' = SubSeq(taskqueue, 1, Len(taskqueue) - 1)
    /\ UNCHANGED <<jobs, workerCount, pc, i, poolState, outqueue, cache,
                   rhstate, results, frame, completed, handled>>
    /\ UNCHANGED serialVars
    /\ UNCHANGED h1bVars

\* Variant of TakeTask: the task is read but left on the queue.
TakeTaskPeek(w) ==
    /\ wstate[w] = "idle"
    /\ taskqueue # <<>>
    /\ wstate' = [wstate EXCEPT ![w] = "busy"]
    /\ wjob' = [wjob EXCEPT ![w] = Head(taskqueue)]
    /\ runs' = [runs EXCEPT ![Head(taskqueue)] = @ + 1]
    /\ UNCHANGED <<jobs, workerCount, pc, i, poolState, taskqueue, outqueue, cache,
                   rhstate, results, frame, completed, handled>>
    /\ UNCHANGED serialVars
    /\ UNCHANGED h1bVars

\* An idle worker takes the task at the head of the task queue.
TakeTask(w) ==
    /\ wstate[w] = "idle"
    /\ taskqueue # <<>>
    /\ wstate' = [wstate EXCEPT ![w] = "busy"]
    /\ wjob' = [wjob EXCEPT ![w] = Head(taskqueue)]
    /\ runs' = [runs EXCEPT ![Head(taskqueue)] = @ + 1]
    /\ taskqueue' = Tail(taskqueue)
    /\ UNCHANGED <<jobs, workerCount, pc, i, poolState, outqueue, cache,
                   rhstate, results, frame, completed, handled>>
    /\ UNCHANGED serialVars
    /\ UNCHANGED h1bVars

\* What the worker sends back: (True, value) or (False, exception).
TaskResult(j) ==
    IF Raises(jobs[j])
    THEN [job |-> j, ok |-> FALSE, value |-> <<>>]
    ELSE [job |-> j, ok |-> TRUE, value |-> processData(jobs[j])]

\* Variant of FinishTask: the worker extends the list results itself.
FinishTaskDirect(w) ==
    /\ wstate[w] = "busy"
    /\ results' = results \o TaskResult(wjob[w]).value
    /\ cache' = cache \ {wjob[w]}
    /\ wstate' = [wstate EXCEPT ![w] = "idle"]
    /\ wjob' = [wjob EXCEPT ![w] = 0]
    /\ completed' = Append(completed, wjob[w])
    /\ handled' = Append(handled, wjob[w])
    /\ UNCHANGED <<jobs, workerCount, pc, i, poolState, taskqueue, outqueue,
                   rhstate, frame, runs>>
    /\ UNCHANGED serialVars
    /\ UNCHANGED h1bVars

\* The worker finishes processData and puts the outcome on the result queue.
FinishTask(w) ==
    /\ wstate[w] = "busy"
    /\ outqueue' = Append(outqueue, TaskResult(wjob[w]))
    /\ wstate' = [wstate EXCEPT ![w] = "idle"]
    /\ wjob' = [wjob EXCEPT ![w] = 0]
    /\ completed' = Append(completed, wjob[w])
    /\ UNCHANGED <<jobs, workerCount, pc, i, poolState, taskqueue, cache,
                   rhstate, results, frame, runs, handled>>
    /\ UNCHANGED serialVars
    /\ UNCHANGED h1bVars

\* Variant of collect_results: results = result.
collect_resultsOverwrite(res, result) == result

\* Variant of collect_results: the new rows are put in front of the old ones.
collect_resultsPrepend(res, result) == result \o res

\* collect_results(result): results.extend(result)
collect_results(res, result) == res \o result

\* Variant of HandleResult: the waiting outcome of the lowest job number is
\* taken instead of the oldest one.
HandleResultByJob ==
    /\ rhstate = "run"
    /\ outqueue # <<>>
    /\ LET k == CHOOSE k \in 1..Len(outqueue) :
                    \A m \in 1..Len(outqueue) : outqueue[k].job <= outqueue[m].job
           r == outqueue[k]
       IN /\ results' = IF r.ok THEN collect_results(results, r.value) ELSE results
          /\ cache' = cache \ {r.job}
          /\ handled' = Append(handled, r.job)
          /\ outqueue' = SubSeq(outqueue, 1, k - 1) \o SubSeq(outqueue, k + 1, Len(outqueue))
    /\ UNCHANGED <<jobs, workerCount, pc, i, poolState, taskqueue, wstate, wjob,
                   rhstate, frame, runs, completed>>
    /\ UNCHANGED serialVars
    /\ UNCHANGED h1bVars

\* Variant of HandleResult: the outcome of a job that raised is dropped and
\* its AsyncResult stays pending.
HandleResultSuccessOnly ==
    /\ rhstate = "run"
    /\ outqueue # <<>>
    /\ LET r == Head(outqueue) IN
          /\ results' = IF r.ok THEN collect_results(results, r.value) ELSE results
          /\ cache' = IF r.ok THEN cache \ {r.job} ELSE cache
          /\ handled' = IF r.ok THEN Append(handled, r.job) ELSE handled
    /\ outqueue' = Tail(outqueue)
    /\ UNCHANGED <<jobs, workerCount, pc, i, poolState, taskqueue, wstate, wjob,
                   rhstate, frame, runs, completed>>
    /\ UNCHANGED serialVars
    /\ UNCHANGED h1bVars

\* The result-handler thread takes the next outcome and sets its AsyncResult:
\* the callback runs on success (there is no error_callback), then the job
\* leaves the cache.
HandleResult ==
    /\ rhstate = "run"
    /\ outqueue # <<>>
    /\ LET r == Head(outqueue) IN
          /\ results' = IF r.ok THEN collect_results(results, r.value) ELSE results
          /\ cache' = cache \ {r.job}
          /\ handled' = Append(handled, r.job)
    /\ outqueue' = Tail(outqueue)
    /\ UNCHANGED <<jobs, workerCount, pc, i, poolState, taskqueue, wstate, wjob,
                   rhstate, frame, runs, completed>>
    /\ UNCHANGED serialVars
    /\ UNCHANGED h1bVars

\* Variant of Drained: the pool shuts down at close() whatever is pending.
DrainedAtClose == poolState = "CLOSE"

\* After close(), once no AsyncResult is pending, the pool sends its
\* sentinels: the workers and the result handler exit.
Drained == poolState = "CLOSE" /\ cache = {}

WorkerExit(w) ==
    /\ wstate[w] = "idle"
    /\ Drained
    /\ wstate' = [wstate EXCEPT ![w] = "exited"]
    /\ UNCHANGED <<jobs, workerCount, pc, i, poolState, taskqueue, wjob, outqueue,
                   cache, rhstate, results, frame, runs, completed, handled>>
    /\ UNCHANGED serialVars
    /\ UNCHANGED h1bVars

ResultHandlerExit ==
    /\ rhstate = "run"
    /\ Drained
    /\ rhstate' = "exited"
    /\ UNCHANGED <<jobs, workerCount, pc, i, poolState, taskqueue, wstate, wjob,
                   outqueue, cache, results, frame, runs, completed, handled>>
    /\ UNCHANGED serialVars
    /\ UNCHANGED h1bVars

\* ------------------------------------------------ cell 2: the serial version
\* results = []
SerialStart ==
    /\ pc = "done"
    /\ spc = "idle"
    /\ sresults' = <<>>
    /\ si' = 0
    /\ spc' = "loop"
    /\ UNCHANGED <<jobs, workerCount, pc, i, results, frame, final>>
    /\ UNCHANGED poolVars
    /\ UNCHANGED h1bVars

\* Variant of SerialStep: results.insert(0, processData(df)).
SerialStepFront ==
    /\ spc = "loop"
    /\ si < NumJobs
    /\ IF Raises(jobs[si + 1])
       THEN /\ spc' = "raised"
            /\ UNCHANGED <<si, sresults>>
       ELSE /\ sresults' = <<processDataSerial(jobs[si + 1])>> \o sresults
            /\ si' = si + 1
            /\ UNCHANGED spc
    /\ UNCHANGED <<jobs, workerCount, pc, i, results, frame, final>>
    /\ UNCHANGED poolVars
    /\ UNCHANGED h1bVars

\* results.append(processData(df)); an exception of processData ends the cell.
SerialStep ==
    /\ spc = "loop"
    /\ si < NumJobs
    /\ IF Raises(jobs[si + 1])
       THEN /\ spc' = "raised"
            /\ UNCHANGED <<si, sresults>>
       ELSE /\ sresults' = Append(sresults, processDataSerial(jobs[si + 1]))
            /\ si' = si + 1
            /\ UNCHANGED spc
    /\ UNCHANGED <<jobs, workerCount, pc, i, results, frame, final>>
    /\ UNCHANGED poolVars
    /\ UNCHANGED h1bVars

\* final = pd.concat(results, axis=0, ignore_index=True); print(final.shape)
SerialConcat ==
    /\ spc = "loop"
    /\ si = NumJobs
    /\ IF ConcatRaises(sresults)
       THEN /\ spc' = "raised"
            /\ UNCHANGED final
       ELSE /\ final' = Concat(sresults)
            /\ spc' = "done"
    /\ UNCHANGED <<jobs, workerCount, pc, i, results, frame, si, sresults>>
    /\ UNCHANGED poolVars
    /\ UNCHANGED h1bVars

Next ==
    \/ CreatePool
    \/ Dispatch
    \/ Close
    \/ Join
    \/ MakeFrame
    \/ \E w \in Workers : TakeTask(w)
    \/ \E w \in Workers : FinishTask(w)
    \/ HandleResult
    \/ \E w \in Workers : WorkerExit(w)
    \/ ResultHandlerExit
    \/ SerialStart
    \/ SerialStep
    \/ SerialConcat

Spec == Init /\ [][Next]_vars

\* Scheduling: the main thread, every worker process and the result-handler
\* thread each keep running while they have a step to take.
MainStep ==
    \/ CreatePool
    \/ Dispatch
    \/ Close
    \/ Join
    \/ MakeFrame
    \/ SerialStart
    \/ SerialStep
    \/ SerialConcat

WorkerStep(w) == w \in Workers /\ (TakeTask(w) \/ FinishTask(w) \/ WorkerExit(w))

HandlerStep == HandleResult \/ ResultHandlerExit

Fairness ==
    /\ WF_vars(MainStep)
    /\ \A w \in 1..MaxWorkers : WF_vars(WorkerStep(w))
    /\ WF_vars(HandlerStep)

\* For termination the content of a frame matters only in whether processData
\* raises on it: the jobs are one-row frames, sound or with a string cell.
InitFair ==
    /\ jobs \in UNION {[1..n -> {MkTable(1, NumCols, FALSE), MkTable(1, NumCols, TRUE)}] :
                           n \in 0..MaxJobs}
    /\ workerCount \in 1..MaxWorkers
    /\ InitRest
    /\ NoFilings

SpecFair == InitFair /\ [][Next]_vars /\ Fairness

\* The same program on job inputs of differing column counts.
SpecRagged == InitRagged /\ [][Next]_vars

\* ------------------------------------------------------ the H1B notebook
\* Exact fractions stand for the float64 values of Job_Per_10000.
RECURSIVE GCD(_, _)
GCD(a, b) == IF b = 0 THEN a ELSE GCD(b, a % b)

Rat(n, d) == [n |-> n \div GCD(n, d), d |-> d \div GCD(n, d)]
RatAdd(x, y) == Rat(x.n * y.d + y.n * x.d, x.d * y.d)
RatMul(k, x) == Rat(k * x.n, x.d)
RatLess(x, y) == x.n * y.d < y.n * x.d

\* A missing Work_State_Code (NaN in the csv column).
NoCode == 0

\* One row of dsJobs; of its ten columns the model keeps the two the query
\* uses and one it does not.
Filing(code, census) ==
    [Work_State_Code |-> code, Census_2015 |-> census, Job_Category |-> "market analyst"]

\* The filings of the inputs: b states with one filing each, state s with a
\* population of s thousand, listed from the highest code down ...
OneEach(b) == [k \in 1..b |-> Filing(b + 1 - k, 1000 * (b + 1 - k))]

\* ... after up to MaxFilings more filings, each without a state code, or of
\* state 1 or 2, or of one more state, with a population of 1000 or 2000.
MoreFilings(b) ==
    UNION {[1..n -> {Filing(c, p) : c \in {NoCode, 1, 2, b + 1}, p \in {1000, 2000}}] :
               n \in 0..MaxFilings}

InitH1B ==
    /\ \E b \in 0..MaxStates : \E more \in MoreFilings(b) : dsJobs = more \o OneEach(b)
    /\ H1BRest
    /\ jobs = <<>>
    /\ workerCount = 1
    /\ InitRest

\* data = dsJobs[["Work_State_Code", "Census_2015"]]
SelectColumns ==
    /\ hpc = "select"
    /\ data' = [k \in 1..Len(dsJobs) |->
                   [Work_State_Code |-> dsJobs[k].Work_State_Code,
                    Census_2015 |-> dsJobs[k].Census_2015]]
    /\ hpc' = "column"
    /\ UNCHANGED <<dsJobs, state_data, top, bottom>>
    /\ UNCHANGED <<jobs, workerCount, pc, i, results, frame>>
    /\ UNCHANGED poolVars
    /\ UNCHANGED serialVars

\* data["Job_Per_10000"] = 10000 * (1 / data["Census_2015"])
AddJobPer10000 ==
    /\ hpc = "column"
    /\ data' = [k \in 1..Len(data) |->
                   [Work_State_Code |-> data[k].Work_State_Code,
                    Census_2015 |-> data[k].Census_2015,
                    Job_Per_10000 |-> RatMul(10000, Rat(1, data[k].Census_2015))]]
    /\ hpc' = "groupby"
    /\ UNCHANGED <<dsJobs, state_data, top, bottom>>
    /\ UNCHANGED <<jobs, workerCount, pc, i, results, frame>>
    /\ UNCHANGED poolVars
    /\ UNCHANGED serialVars

\* The group keys in ascending order (groupby sorts them; rows whose key is
\* missing belong to no group).
RECURSIVE Ascending(_)
Ascending(S) ==
    IF S = {} THEN <<>>
    ELSE LET m == CHOOSE x \in S : \A y \in S : x <= y
         IN <<m>> \o Ascending(S \ {m})

GroupKeys(d) == Ascending({d[k].Work_State_Code : k \in 1..Len(d)} \ {NoCode})

\* The sums of a group's two value columns, over its rows in frame order.
RECURSIVE SumCensus(_, _)
SumCensus(d, key) ==
    IF d = <<>> THEN 0
    ELSE (IF Head(d).Work_State_Code = key THEN Head(d).Census_2015 ELSE 0)
         + SumCensus(Tail(d), key)

RECURSIVE SumJobs(_, _)
SumJobs(d, key) ==
    IF d = <<>> THEN Rat(0, 1)
    ELSE IF Head(d).Work_State_Code = key
         THEN RatAdd(Head(d).Job_Per_10000, SumJobs(Tail(d), key))
         ELSE SumJobs(Tail(d), key)

\* data = data.groupby(['Work_State_Code']).sum(): one row per key, indexed by
\* the key, every other column summed.
GroupBySum ==
    /\ hpc = "groupby"
    /\ data' = LET keys == GroupKeys(data)
               IN [k \in 1..Len(keys) |->
                      [index |-> keys[k],
                       Census_2015 |-> SumCensus(data, keys[k]),
                       Job_Per_10000 |-> SumJobs(data, keys[k])]]
    /\ hpc' = "reset"
    /\ UNCHANGED <<dsJobs, state_data, top, bottom>>
    /\ UNCHANGED <<jobs, workerCount, pc, i, results, frame>>
    /\ UNCHANGED poolVars
    /\ UNCHANGED serialVars

\* state_data = data.reset_index(): the key becomes a column again and the
\* rows are labelled 0, 1, 2, ...
ResetIndex ==
    /\ hpc = "reset"
    /\ state_data' = [k \in 1..Len(data) |->
                         [index |-> k - 1,
                          Work_State_Code |-> data[k].index,
                          Census_2015 |-> data[k].Census_2015,
                          Job_Per_10000 |-> data[k].Job_Per_10000]]
    /\ hpc' = "sort"
    /\ UNCHANGED <<dsJobs, data, top, bottom>>
    /\ UNCHANGED <<jobs, workerCount, pc, i, results, frame>>
    /\ UNCHANGED poolVars
    /\ UNCHANGED serialVars

\* The orders sort_values may leave the rows at positions S in: descending
\* (Largest) or ascending by Job_Per_10000; the default quicksort is not
\* stable, so rows of equal value come in any order.
Largest(rows, S) ==
    {m \in S : \A k \in S : ~RatLess(rows[m].Job_Per_10000, rows[k].Job_Per_10000)}

Smallest(rows, S) ==
    {m \in S : \A k \in S : ~RatLess(rows[k].Job_Per_10000, rows[m].Job_Per_10000)}

RECURSIVE SortOutcomes(_, _, _)
SortOutcomes(rows, S, ascending) ==
    IF S = {} THEN {<<>>}
    ELSE UNION {{<<rows[m]>> \o t : t \in SortOutcomes(rows, S \ {m}, ascending)} :
                    m \in IF ascending THEN Smallest(rows, S) ELSE Largest(rows, S)}

\* Variant of SortValues: ascending=True.
SortValuesAscending ==
    /\ hpc = "sort"
    /\ state_data' \in SortOutcomes(state_data, 1..Len(state_data), TRUE)
    /\ hpc' = "head"
    /\ UNCHANGED <<dsJobs, data, top, bottom>>
    /\ UNCHANGED <<jobs, workerCount, pc, i, results, frame>>
    /\ UNCHANGED poolVars
    /\ UNCHANGED serialVars

\* state_data.sort_values(by="Job_Per_10000", ascending=False, inplace=True)
SortValues ==
    /\ hpc = "sort"
    /\ state_data' \in SortOutcomes(state_data, 1..Len(state_data), FALSE)
    /\ hpc' = "head"
    /\ UNCHANGED <<dsJobs, data, top, bottom>>
    /\ UNCHANGED <<jobs, workerCount, pc, i, results, frame>>
    /\ UNCHANGED poolVars
    /\ UNCHANGED serialVars

\* .reset_index(drop=True): the rows are labelled 0, 1, 2, ... anew.
Relabel(rows) == [k \in 1..Len(rows) |-> [rows[k] EXCEPT !.index = k - 1]]

Min(a, b) == IF a <= b THEN a ELSE b

\* print(state_data.head(10).reset_index(drop=True))
PrintHead ==
    /\ hpc = "head"
    /\ top' = Relabel(SubSeq(state_data, 1, Min(HeadCount, Len(state_data))))
    /\ hpc' = "tail"
    /\ UNCHANGED <<dsJobs, data, state_data, bottom>>
    /\ UNCHANGED <<jobs, workerCount, pc, i, results, frame>>
    /\ UNCHANGED poolVars
    /\ UNCHANGED serialVars

\* print(state_data.tail(10).reset_index(drop=True))
PrintTail ==
    /\ hpc = "tail"
    /\ bottom' = Relabel(SubSeq(state_data, Len(state_data) + 1 - Min(TailCount, Len(state_data)),
                                Len(state_data)))
    /\ hpc' = "done"
    /\ UNCHANGED <<dsJobs, data, state_data, top>>
    /\ UNCHANGED <<jobs, workerCount, pc, i, results, frame>>
    /\ UNCHANGED poolVars
    /\ UNCHANGED serialVars

NextH1B ==
    \/ SelectColumns
    \/ AddJobPer10000
    \/ GroupBySum
    \/ ResetIndex
    \/ SortValues
    \/ PrintHead
    \/ PrintTail

SpecH1B == InitH1B /\ [][NextH1B]_vars

\* --------------------------------------------- the run the notebook records
\* The schedules of the recorded run (ten equal jobs of several seconds each
\* on eight cores).  The worker processes are interchangeable: of the idle
\* workers the lowest takes the next task, and on shutdown the workers exit in
\* ascending order.
LowestIdle(w) == \A v \in 1..(w - 1) : wstate[v] # "idle"

LowestLeft(w) == \A v \in 1..(w - 1) : wstate[v] = "exited"

\* A job runs far longer than it takes to dispatch the tasks and to hand them
\* to the workers: no job finishes before the main thread waits in join and
\* every task that can be taken has been taken.
LongJobs ==
    /\ pc = "join"
    /\ taskqueue = <<>> \/ \A v \in Workers : wstate[v] # "idle"

\* The jobs cost the same: a job finishes before the jobs started after it.
StartedFirst(w) == \A v \in Workers : wstate[v] = "busy" => wjob[w] <= wjob[v]

NextNotebook ==
    \/ CreatePool
    \/ Dispatch
    \/ Close
    \/ Join
    \/ MakeFrame
    \/ \E w \in Workers : LowestIdle(w) /\ TakeTask(w)
    \/ \E w \in Workers : LongJobs /\ StartedFirst(w) /\ FinishTask(w)
    \/ HandleResult
    \/ \E w \in Workers : LowestLeft(w) /\ WorkerExit(w)
    \/ ResultHandlerExit
    \/ SerialStart
    \/ SerialStep
    \/ SerialConcat

SpecNotebook == InitNotebook /\ [][NextNotebook]_vars

\* ------------------------------------------------------------ the claims
\* The JobResult of job j: the rows its processData call returns; a job whose
\* transformation raises returns none.
Succeeds(j) == ~Raises(jobs[j])
JobResult(j) == IF Succeeds(j) THEN processData(jobs[j]) ELSE <<>>

RECURSIVE SumRows(_)
SumRows(n) == IF n = 0 THEN 0 ELSE Len(JobResult(n)) + SumRows(n - 1)

RECURSIVE UnionRows(_)
UnionRows(n) == IF n = 0 THEN EmptyBag ELSE SeqBag(JobResult(n)) (+) UnionRows(n - 1)

\* The JobResults concatenated in submission order.
SubmissionOrderRows == Flatten([j \in JobIds |-> JobResult(j)])

\* C1: when cell 1 is done, the frame has as many rows as all JobResults
\* together and its rows are, as a multiset, the union of the JobResults' rows:
\* no row is duplicated and none is dropped, in whatever order the jobs
\* completed.
C1_RowsConserved ==
    pc = "done" =>
        /\ Len(frame.rows) = SumRows(NumJobs)
        /\ SeqBag(frame.rows) = UnionRows(NumJobs)

\* C1 witness: two succeeding jobs with rows, handled against submission order.
C1_Witness ==
    /\ pc = "done"
    /\ NumJobs = 2
    /\ handled = <<2, 1>>
    /\ Len(JobResult(1)) = 2
    /\ Len(JobResult(2)) = 1
    /\ Len(frame.rows) = 3

\* C2 (as claimed): if some job's transformation raises, cell 1 produces no
\* frame at all.
C2_NoTableOnFailure ==
    (\E j \in JobIds : Raises(jobs[j])) => frame = NoFrame

\* C3: the frame is built only when every dispatched job has reported: no job
\* is undispatched, queued, running, or waiting for its callback.
AllReported ==
    /\ i = NumJobs
    /\ taskqueue = <<>>
    /\ \A w \in Workers : wjob[w] = 0 /\ wstate[w] # "busy"
    /\ outqueue = <<>>
    /\ cache = {}
    /\ Len(handled) = NumJobs

C3_FinalizeAfterAll ==
    (pc \in {"frame", "done"} \/ frame # NoFrame) => AllReported

\* C3 witness: join has returned after two jobs ran on different schedules.
C3_Witness ==
    /\ pc = "frame"
    /\ NumJobs = 2
    /\ workerCount = 2
    /\ completed = <<2, 1>>

\* C4: every job is started exactly once and held by at most one worker; none
\* is skipped and none is run again, also after another job has failed.
C4_ExactlyOnce ==
    /\ \A j \in JobIds :
          /\ runs[j] <= 1
          /\ Cardinality({w \in Workers : wjob[w] = j}) <= 1
          /\ runs[j] = 1 <=> j \notin
                 ({k \in JobIds : k > i} \cup {taskqueue[k] : k \in 1..Len(taskqueue)})
    /\ pc \in {"frame", "done"} => \A j \in JobIds : runs[j] = 1

\* C4 witness: job 1 failed and job 2 was still executed once.
C4_Witness ==
    /\ pc = "done"
    /\ NumJobs = 2
    /\ Raises(jobs[1])
    /\ runs = [j \in JobIds |-> 1]

\* C5: the list results changes only in a step of the result handler of the
\* parent process, which appends the complete value of the oldest waiting
\* outcome; no worker and not the main thread moves in that step.
C5_HandlerOnly ==
    [][results' # results =>
          /\ rhstate = "run"
          /\ outqueue # <<>>
          /\ outqueue' = Tail(outqueue)
          /\ results' = results \o Head(outqueue).value
          /\ wstate' = wstate
          /\ wjob' = wjob
          /\ pc' = pc]_vars

\* C5 witness: one JobResult has been appended while another is waiting.
C5_Witness ==
    /\ results # <<>>
    /\ outqueue # <<>>
    /\ Head(outqueue).ok
    /\ Head(outqueue).value # <<>>

IsPrefix(s, t) == Len(s) <= Len(t) /\ SubSeq(t, 1, Len(s)) = s

BlocksOf(order) == Flatten([k \in 1..Len(order) |-> JobResult(order[k])])

\* C6: results holds the jobs' row blocks in the order their completions were
\* handled, which is the order in which the workers finished them; the frame
\* keeps that order, not the submission order.
C6_CompletionOrder ==
    /\ results = BlocksOf(handled)
    /\ IsPrefix(handled, completed)
    /\ pc = "done" => frame.rows = BlocksOf(completed)

\* C6 witness: job 2 finished before job 1 and its rows come first.
C6_Witness ==
    /\ pc = "done"
    /\ completed = <<2, 1>>
    /\ JobResult(1) # <<>>
    /\ JobResult(2) # <<>>
    /\ frame.rows = JobResult(2) \o JobResult(1)
    /\ frame.rows # SubmissionOrderRows

\* C7 (as claimed): with no jobs the frame has zero rows and the columns of
\* the input schema.
C7_EmptyKeepsSchema ==
    (pc = "done" /\ NumJobs = 0) => Shape(frame) = <<0, NumCols>>

\* C8: the content of the frame does not depend on the pool size: for every
\* workerCount its rows are, as a multiset, the rows a single worker yields
\* (the JobResults in submission order), and with one worker exactly those.
C8_PoolSizeIrrelevant ==
    pc = "done" =>
        /\ SeqBag(frame.rows) = SeqBag(SubmissionOrderRows)
        /\ workerCount = 1 => frame.rows = SubmissionOrderRows

\* C8 witness: more workers than jobs, and an order one worker cannot give.
C8_Witness ==
    /\ pc = "done"
    /\ workerCount > NumJobs
    /\ NumJobs = 2
    /\ frame.rows # SubmissionOrderRows

\* C9: when join has returned, every worker process (and the result handler)
\* has exited, whether or not a job failed.
C9_WorkersJoined ==
    pc \in {"frame", "done"} =>
        /\ \A w \in Workers : wstate[w] = "exited"
        /\ rhstate = "exited"

\* C9 witness: the call is done after a job failed, with three workers gone.
C9_Witness ==
    /\ pc = "done"
    /\ \E j \in JobIds : Raises(jobs[j])
    /\ workerCount = 3
    /\ \A w \in Workers : wstate[w] = "exited"

\* The values of job j's input frame, row by row.
InputValues(j) ==
    [r \in 1..Len(jobs[j].rows) |-> [c \in 1..Len(jobs[j].rows[r]) |-> jobs[j].rows[r][c].v]]

ValuesOf(f) == [r \in 1..Len(f.rows) |-> [c \in 1..Len(f.rows[r]) |-> f.rows[r][c].v]]

\* C10: in the recorded run (ten jobs on the same 150 x 5 frame, eight
\* workers) the parallel cell ends with a frame of shape (1500, 5) and the
\* serial cell does too; both hold the input's values ten times over.
C10_NotebookShapes ==
    /\ pc = "done" =>
          /\ Shape(frame) = <<1500, 5>>
          /\ ValuesOf(frame) = Flatten([j \in JobIds |-> InputValues(j)])
    /\ spc # "raised"
    /\ spc = "done" =>
          /\ Shape(final) = <<1500, 5>>
          /\ ValuesOf(final) = Flatten([j \in JobIds |-> InputValues(j)])

\* C10 witness: both cells of the recorded run have finished.
C10_Witness ==
    /\ NumJobs = 10
    /\ workerCount = 8
    /\ Shape(jobs[1]) = <<150, 5>>
    /\ pc = "done"
    /\ spc = "done"
    /\ Shape(frame) = <<1500, 5>>
    /\ Shape(final) = <<1500, 5>>

\* The rows the serial processData returns for job j.
SerialResult(j) == processDataSerial(jobs[j]).rows

\* C11: the serial cell processes the jobs one at a time in submission order:
\* after si iterations its list holds the frames of jobs 1..si in that order,
\* and the concatenated frame has job j's rows before job j+1's.  The frame is
\* a function of the job sequence alone, so a second run gives the same rows
\* in the same order.
C11_SerialInOrder ==
    /\ spc \in {"loop", "done"} =>
          /\ Len(sresults) = si
          /\ \A k \in 1..si : sresults[k] = processDataSerial(jobs[k])
    /\ spc = "done" =>
          /\ si = NumJobs
          /\ final.rows = Flatten([j \in JobIds |-> SerialResult(j)])

\* C11 witness: the serial cell finished two jobs whose rows differ.
C11_Witness ==
    /\ spc = "done"
    /\ NumJobs = 2
    /\ Len(SerialResult(1)) = 1
    /\ Len(SerialResult(2)) = 2
    /\ final.rows = SerialResult(1) \o SerialResult(2)
    /\ final.rows # SerialResult(2) \o SerialResult(1)

\* Two JobResults disagree on the number of columns.
SchemaMismatch ==
    \E j \in JobIds, k \in JobIds :
        \E r \in 1..Len(JobResult(j)), q \in 1..Len(JobResult(k)) :
            Len(JobResult(j)[r]) # Len(JobResult(k)[q])

\* C12 (as claimed): a failure is surfaced to the caller, so cell 1 ends
\* normally with a frame only if no job raised and no JobResult disagrees with
\* the others on its columns.
C12_FailuresSurfaced ==
    pc = "done" =>
        /\ ~(\E j \in JobIds : Raises(jobs[j]))
        /\ ~SchemaMismatch

\* C13: under fair scheduling the main thread, once it waits in pool.join(),
\* eventually leaves the wait and cell 1 ends, so no run stays blocked between
\* the dispatch loop, the workers and the handler; the wait ends only when
\* every dispatched job has reported.
C13_JoinReturns ==
    /\ (pc = "join") ~> (pc = "frame")
    /\ <>(pc = "done")
    /\ [][(pc = "join" /\ pc' = "frame") => AllReported]_vars

\* C13 witness: join has returned on a pool of one worker after a job raised.
C13_Witness ==
    /\ pc = "frame"
    /\ NumJobs = 2
    /\ workerCount = 1
    /\ Raises(jobs[1])
    /\ Len(handled) = 2

\* The jobs being executed: started by a worker and not yet finished.
Executing ==
    {j \in JobIds : runs[j] >= 1 /\ \A k \in 1..Len(completed) : completed[k] # j}

\* C14: at most workerCount jobs are being executed and each of them is the
\* one job of one busy worker; the queue holds the waiting jobs in dispatch
\* order and the jobs are started in that order; a task goes to a worker that
\* is idle, and it is the oldest one waiting; a busy worker keeps its job
\* until it finishes it.
C14_FixedPoolFifo ==
    /\ [](/\ Cardinality(Executing) <= workerCount
          /\ Executing = {wjob[w] : w \in {v \in Workers : wstate[v] = "busy"}}
          /\ \A w \in Workers : wstate[w] = "busy" <=> wjob[w] # 0
          /\ \A k \in 1..(Len(taskqueue) - 1) : taskqueue[k] < taskqueue[k + 1]
          /\ \A j \in JobIds : runs[j] >= 1 => \A k \in 1..(j - 1) : runs[k] >= 1)
    /\ [][\A w \in Workers :
             wjob'[w] # wjob[w] =>
                 \/ /\ wjob[w] = 0
                    /\ wstate[w] = "idle"
                    /\ taskqueue # <<>>
                    /\ wjob'[w] = Head(taskqueue)
                    /\ taskqueue' = Tail(taskqueue)
                 \/ /\ wjob[w] # 0
                    /\ wjob'[w] = 0
                    /\ completed' = Append(completed, wjob[w])]_vars

\* C14 witness: the only worker has finished job 1 and now runs job 2, which
\* had to wait in the queue.
C14_Witness ==
    /\ workerCount = 1
    /\ NumJobs = 2
    /\ completed = <<1>>
    /\ wstate[1] = "busy"
    /\ wjob[1] = 2

\* C15: results is empty before any completion is handled and only ever
\* grows at its end, by the whole row list of one succeeded job whose
\* completion is being handled; at every moment it is the concatenation, in
\* handling order, of the complete row lists of the jobs handled so far, each
\* of them handled once.
C15_AppendOnly ==
    /\ [](/\ handled = <<>> => results = <<>>
          /\ results = Flatten([k \in 1..Len(handled) |-> JobResult(handled[k])])
          /\ \A k \in 1..Len(handled), m \in 1..Len(handled) :
                 handled[k] = handled[m] => k = m)
    /\ [][/\ IsPrefix(results, results')
          /\ results' # results =>
                \E j \in JobIds :
                    /\ Succeeds(j)
                    /\ handled' = Append(handled, j)
                    /\ results' = results \o JobResult(j)]_vars

\* C15 witness: while the main thread waits in join, two non-empty row lists
\* have been appended one after the other, in submission order.
C15_Witness ==
    /\ pc = "join"
    /\ handled = <<1, 2>>
    /\ Len(JobResult(1)) = 2
    /\ Len(JobResult(2)) = 1
    /\ results = JobResult(1) \o JobResult(2)
    /\ results # JobResult(2) \o JobResult(1)

\* The orders in which the jobs can be arranged.
JobOrders == {o \in [JobIds -> JobIds] : \A a \in JobIds, b \in JobIds : o[a] = o[b] => a = b}

\* C16 (as claimed): when no job fails and both cells have run, the frame of
\* the parallel cell and the frame of the serial cell have the same multiset
\* of rows and the same number of columns, and the parallel frame is the
\* jobs' row blocks, each whole and in its own order, in some order of the
\* jobs.
C16_ParallelMatchesSerial ==
    (pc = "done" /\ spc \in {"done", "raised"} /\ \A j \in JobIds : Succeeds(j)) =>
        /\ spc = "done"
        /\ SeqBag(frame.rows) = SeqBag(final.rows)
        /\ frame.ncols = final.ncols
        /\ \E o \in JobOrders :
               frame.rows = Flatten([k \in JobIds |-> SerialResult(o[k])])

\* The states that occur in the filings.
StateCodes == {dsJobs[k].Work_State_Code : k \in 1..Len(dsJobs)} \ {NoCode}

\* The sum of 10000 / Census_2015 over the first n filings that are of state c.
RECURSIVE JobsPer10000(_, _)
JobsPer10000(c, n) ==
    IF n = 0 THEN Rat(0, 1)
    ELSE IF dsJobs[n].Work_State_Code = c
         THEN RatAdd(JobsPer10000(c, n - 1), Rat(10000, dsJobs[n].Census_2015))
         ELSE JobsPer10000(c, n - 1)

StateValue(c) == JobsPer10000(c, Len(dsJobs))

CodesIn(rows) == {rows[k].Work_State_Code : k \in 1..Len(rows)}

\* C17: state_data has exactly one row per state code that occurs in the
\* filings, and the row's Job_Per_10000 is the sum of 10000 / Census_2015 over
\* that state's filings; once sorted, the values never increase down the
\* frame; head(10) prints ten states (all of them if there are fewer) and no
\* other state has a higher value than any of these; tail(10) prints ten
\* states (all if fewer) and no other state has a lower value.
C17_StateRanking ==
    /\ hpc \in {"sort", "head", "tail", "done"} =>
          /\ Len(state_data) = Cardinality(StateCodes)
          /\ \A c \in StateCodes :
                 \E k \in 1..Len(state_data) :
                     /\ state_data[k].Work_State_Code = c
                     /\ state_data[k].Job_Per_10000 = StateValue(c)
    /\ hpc \in {"head", "tail", "done"} =>
          \A k \in 1..(Len(state_data) - 1) :
              ~RatLess(state_data[k].Job_Per_10000, state_data[k + 1].Job_Per_10000)
    /\ hpc \in {"tail", "done"} =>
          /\ Cardinality(CodesIn(top)) = Min(HeadCount, Cardinality(StateCodes))
          /\ Len(top) = Cardinality(CodesIn(top))
          /\ CodesIn(top) \subseteq StateCodes
          /\ \A k \in 1..Len(top) :
                 /\ top[k].Job_Per_10000 = StateValue(top[k].Work_State_Code)
                 /\ \A c \in StateCodes \ CodesIn(top) :
                        ~RatLess(top[k].Job_Per_10000, StateValue(c))
          /\ \A k \in 1..(Len(top) - 1) :
                 ~RatLess(top[k].Job_Per_10000, top[k + 1].Job_Per_10000)
    /\ hpc = "done" =>
          /\ Cardinality(CodesIn(bottom)) = Min(TailCount, Cardinality(StateCodes))
          /\ Len(bottom) = Cardinality(CodesIn(bottom))
          /\ CodesIn(bottom) \subseteq StateCodes
          /\ \A k \in 1..Len(bottom) :
                 /\ bottom[k].Job_Per_10000 = StateValue(bottom[k].Work_State_Code)
                 /\ \A c \in StateCodes \ CodesIn(bottom) :
                        ~RatLess(StateValue(c), bottom[k].Job_Per_10000)

\* C17 witness: eleven states, one of them with two filings whose sum ties
\* with another state's value and is listed first; a filing without a state
\* code; the top ten leave out the lowest state and the bottom ten the one
\* listed first.
C17_Witness ==
    /\ hpc = "done"
    /\ Cardinality(StateCodes) = HeadCount + 1
    /\ \E k \in 1..Len(dsJobs) : dsJobs[k].Work_State_Code = NoCode
    /\ Cardinality({k \in 1..Len(dsJobs) : dsJobs[k].Work_State_Code = 2}) = 2
    /\ state_data[1].Work_State_Code = 2
    /\ state_data[1].Job_Per_10000 = state_data[2].Job_Per_10000
    /\ Len(top) = HeadCount
    /\ Len(bottom) = TailCount
    /\ state_data[Len(state_data)].Work_State_Code \notin CodesIn(top)
    /\ state_data[1].Work_State_Code \notin CodesIn(bottom)

====
